---- MODULE Spec2Model ----
(***************************************************************************)
(* A model of the video classifier's categorization core                   *)
(* (core/production_categorizer.py) and of the pipeline worker that calls  *)
(* it (app_production.py).                                                 *)
(*                                                                         *)
(* Numbers that are floats in the source are exact rationals <<n, d>>,     *)
(* d > 0, kept in lowest terms.  A text is a run of whitespace-separated   *)
(* tokens plus an amount of surrounding whitespace.  The catalog keeps     *)
(* every category and every group of the source; of the keyword lists it   *)
(* keeps the ASCII phrases, since the modelled texts are made of ASCII     *)
(* tokens and no other phrase can match them.                              *)
(***************************************************************************)
EXTENDS Integers, Sequences, FiniteSets, TLC

(* ------------------------------ bounds --------------------------------- *)

\* Longest text, in tokens.
MaxWords == 3

\* Most whitespace characters around a text.
MaxPad == 2

\* Most classify calls on one classifier.
MaxCalls == 2

(* ----------------------------- rationals ------------------------------- *)

RECURSIVE GCD(_, _)
GCD(a, b) == IF b = 0 THEN a ELSE GCD(b, a % b)

Rat(n, d) ==
    LET g == GCD(IF n < 0 THEN -n ELSE n, d)
    IN  IF g = 0 THEN <<0, 1>> ELSE <<n \div g, d \div g>>

RAdd(a, b) == Rat(a[1] * b[2] + b[1] * a[2], a[2] * b[2])

RMul(a, b) == Rat(a[1] * b[1], a[2] * b[2])

RDiv(a, b) == Rat(a[1] * b[2], a[2] * b[1])

RLt(a, b) == a[1] * b[2] < b[1] * a[2]

RLe(a, b) == a[1] * b[2] <= b[1] * a[2]

REq(a, b) == a[1] * b[2] = b[1] * a[2]

RMin(a, b) == IF RLe(a, b) THEN a ELSE b

RMax(a, b) == IF RLe(b, a) THEN a ELSE b

Zero == <<0, 1>>

One == <<1, 1>>

(* ------------------------------ catalog -------------------------------- *)

\* The display name and the description of a category are Persian strings in
\* the source; each is stood for by a tagged copy of the identifier (the
\* display names of the source are pairwise distinct, as these are).
Category(name, keywords, weight_boost) ==
    [name |-> name, name_fa |-> "fa:" \o name,
     description |-> "desc:" \o name,
     keywords |-> keywords, weight_boost |-> weight_boost]

CategoryOrder ==
    << "news", "politics_domestic", "politics_international", "geopolitics",
       "economy", "crypto", "military", "defense", "history_ancient",
       "history_medieval", "history_modern", "history_world",
       "religion_islam", "religion_shia", "religion_other", "tech_ai",
       "tech_programming", "tech_hardware", "tech_internet",
       "health_medicine", "health_mental", "health_fitness",
       "health_nutrition", "sports_football", "sports_other",
       "cooking_persian", "cooking_international", "cooking_baking",
       "entertainment_movie", "entertainment_music", "entertainment_comedy",
       "gaming_pc", "gaming_mobile", "education_academic",
       "education_language", "education_skills", "lifestyle_vlog",
       "lifestyle_travel", "lifestyle_fashion", "automotive", "business",
       "family_kids", "family_parenting", "documentary", "podcast", "asmr",
       "other" >>

CATEGORIES_DETAILED ==
    "news"                     :> Category("news", << "breaking", "news" >>, <<1, 1>>) @@
    "politics_domestic"        :> Category("politics_domestic", << >>, <<1, 1>>) @@
    "politics_international"   :> Category("politics_international", << >>, <<1, 1>>) @@
    "geopolitics"              :> Category("geopolitics", << >>, <<1, 1>>) @@
    "economy"                  :> Category("economy", << >>, <<1, 1>>) @@
    "crypto"                   :> Category("crypto", << "NFT", "bitcoin", "ethereum", "crypto", "blockchain" >>, <<1, 1>>) @@
    "military"                 :> Category("military", << >>, <<1, 1>>) @@
    "defense"                  :> Category("defense", << >>, <<1, 1>>) @@
    "history_ancient"          :> Category("history_ancient", << >>, <<1, 1>>) @@
    "history_medieval"         :> Category("history_medieval", << >>, <<1, 1>>) @@
    "history_modern"           :> Category("history_modern", << >>, <<1, 1>>) @@
    "history_world"            :> Category("history_world", << >>, <<1, 1>>) @@
    "religion_islam"           :> Category("religion_islam", << >>, <<1, 1>>) @@
    "religion_shia"            :> Category("religion_shia", << >>, <<1, 1>>) @@
    "religion_other"           :> Category("religion_other", << >>, <<1, 1>>) @@
    "tech_ai"                  :> Category("tech_ai", << "ChatGPT", "GPT", "AI", "machine learning", "deep learning" >>, <<1, 1>>) @@
    "tech_programming"         :> Category("tech_programming", << "API" >>, <<1, 1>>) @@
    "tech_hardware"            :> Category("tech_hardware", << >>, <<1, 1>>) @@
    "tech_internet"            :> Category("tech_internet", << "VPN" >>, <<1, 1>>) @@
    "health_medicine"          :> Category("health_medicine", << >>, <<1, 1>>) @@
    "health_mental"            :> Category("health_mental", << >>, <<1, 1>>) @@
    "health_fitness"           :> Category("health_fitness", << >>, <<1, 1>>) @@
    "health_nutrition"         :> Category("health_nutrition", << >>, <<1, 1>>) @@
    "sports_football"          :> Category("sports_football", << >>, <<1, 1>>) @@
    "sports_other"             :> Category("sports_other", << >>, <<1, 1>>) @@
    "cooking_persian"          :> Category("cooking_persian", << >>, <<1, 1>>) @@
    "cooking_international"    :> Category("cooking_international", << >>, <<1, 1>>) @@
    "cooking_baking"           :> Category("cooking_baking", << >>, <<1, 1>>) @@
    "entertainment_movie"      :> Category("entertainment_movie", << >>, <<1, 1>>) @@
    "entertainment_music"      :> Category("entertainment_music", << >>, <<1, 1>>) @@
    "entertainment_comedy"     :> Category("entertainment_comedy", << >>, <<1, 1>>) @@
    "gaming_pc"                :> Category("gaming_pc", << "PC" >>, <<1, 1>>) @@
    "gaming_mobile"            :> Category("gaming_mobile", << >>, <<1, 1>>) @@
    "education_academic"       :> Category("education_academic", << >>, <<1, 1>>) @@
    "education_language"       :> Category("education_language", << >>, <<1, 1>>) @@
    "education_skills"         :> Category("education_skills", << >>, <<1, 1>>) @@
    "lifestyle_vlog"           :> Category("lifestyle_vlog", << >>, <<1, 1>>) @@
    "lifestyle_travel"         :> Category("lifestyle_travel", << >>, <<1, 1>>) @@
    "lifestyle_fashion"        :> Category("lifestyle_fashion", << >>, <<1, 1>>) @@
    "automotive"               :> Category("automotive", << >>, <<1, 1>>) @@
    "business"                 :> Category("business", << >>, <<1, 1>>) @@
    "family_kids"              :> Category("family_kids", << >>, <<1, 1>>) @@
    "family_parenting"         :> Category("family_parenting", << >>, <<1, 1>>) @@
    "documentary"              :> Category("documentary", << >>, <<1, 1>>) @@
    "podcast"                  :> Category("podcast", << >>, <<1, 1>>) @@
    "asmr"                     :> Category("asmr", << "ASMR" >>, <<1, 1>>) @@
    "other"                    :> Category("other", << >>, <<1, 2>>)

GroupOrder ==
    << "news_politics", "economy", "military_defense", "history", "religion",
       "technology", "health", "sports", "cooking", "entertainment",
       "gaming", "education", "lifestyle", "other" >>

CATEGORY_GROUPS ==
    "news_politics"    :> << "news", "politics_domestic", "politics_international", "geopolitics" >> @@
    "economy"          :> << "economy", "crypto" >> @@
    "military_defense" :> << "military", "defense" >> @@
    "history"          :> << "history_ancient", "history_medieval", "history_modern", "history_world" >> @@
    "religion"         :> << "religion_islam", "religion_shia", "religion_other" >> @@
    "technology"       :> << "tech_ai", "tech_programming", "tech_hardware", "tech_internet" >> @@
    "health"           :> << "health_medicine", "health_mental", "health_fitness", "health_nutrition" >> @@
    "sports"           :> << "sports_football", "sports_other" >> @@
    "cooking"          :> << "cooking_persian", "cooking_international", "cooking_baking" >> @@
    "entertainment"    :> << "entertainment_movie", "entertainment_music", "entertainment_comedy" >> @@
    "gaming"           :> << "gaming_pc", "gaming_mobile" >> @@
    "education"        :> << "education_academic", "education_language", "education_skills" >> @@
    "lifestyle"        :> << "lifestyle_vlog", "lifestyle_travel", "lifestyle_fashion" >> @@
    "other"            :> << "automotive", "business", "family_kids", "family_parenting", "documentary", "podcast", "asmr", "other" >>

\* A faulty variant of the tables: "crypto" is listed in no group.
MisgroupedCatalog ==
    [order |-> CategoryOrder,
     cats |-> CATEGORIES_DETAILED,
     group_order |-> GroupOrder,
     groups |-> [CATEGORY_GROUPS EXCEPT !["economy"] = <<"economy">>]]

\* The catalog the module defines: its two tables, each with the order of its
\* keys (a Python dict iterates in insertion order).
BuiltinCatalog ==
    [order |-> CategoryOrder, cats |-> CATEGORIES_DETAILED,
     group_order |-> GroupOrder, groups |-> CATEGORY_GROUPS]

\* The tables as the module defines them, by name: "builtin" is the source as
\* it stands.  The others are the source with one edit to CATEGORY_GROUPS: a
\* category left out of every group, a category listed in two groups, a group
\* listing a category that is not defined.
CatalogNames == {"builtin", "unassigned", "multiple", "undefined_member"}

Catalog(name) ==
    CASE name = "builtin" -> BuiltinCatalog
      [] name = "unassigned" ->
           [BuiltinCatalog EXCEPT !.groups["economy"] = <<"economy">>]
      [] name = "multiple" ->
           [BuiltinCatalog EXCEPT !.groups["technology"] = @ \o <<"crypto">>]
      [] name = "undefined_member" ->
           [BuiltinCatalog EXCEPT !.groups["economy"] = @ \o <<"stocks">>]

(* ------------------------------- texts --------------------------------- *)

\* The tokens the modelled texts are made of: a keyword of each of three
\* categories (one of them written in mixed case) and the two halves of a
\* two-word keyword, neither of which is a keyword by itself.
Vocabulary == {"blockchain", "breaking", "ChatGPT", "machine", "learning"}

\* str.lower() on a token.
Lower(w) ==
    CASE w = "ChatGPT" -> "chatgpt"
      [] w = "GPT" -> "gpt"
      [] w = "AI" -> "ai"
      [] w = "NFT" -> "nft"
      [] w = "API" -> "api"
      [] w = "VPN" -> "vpn"
      [] w = "PC" -> "pc"
      [] w = "ASMR" -> "asmr"
      [] OTHER -> w

\* The words of a keyword phrase (the phrase split at its spaces).
KeywordWords(keyword) ==
    CASE keyword = "machine learning" -> <<"machine", "learning">>
      [] keyword = "deep learning" -> <<"deep", "learning">>
      [] OTHER -> <<keyword>>

\* A text: its tokens, separated by single spaces, and the number of
\* whitespace characters around them.
Texts ==
    [pad : {0, MaxPad},
     words : UNION {[1..n -> Vocabulary] : n \in 0..MaxWords}]

RECURSIVE JoinedLen(_)
JoinedLen(words) ==
    IF words = << >> THEN 0
    ELSE Len(Head(words)) + (IF Len(words) > 1 THEN 1 ELSE 0) + JoinedLen(Tail(words))

\* len(text)
TextLen(text) == text.pad + JoinedLen(text.words)

\* len(text.strip())
StripLen(text) == JoinedLen(text.words)

\* len(text.split())
TokenCount(text) == Len(text.words)

\* text.strip() == "": nothing but whitespace.
IsBlank(text) == text.words = << >>

(* ------------------------ AdvancedRegexCategorizer ---------------------- *)

MinTextLen == 20

TopN == 3

\* text.lower()
RECURSIVE LowerAll(_)
LowerAll(words) ==
    IF words = << >> THEN << >> ELSE <<Lower(Head(words))>> \o LowerAll(Tail(words))

TextLower(text) == [pad |-> text.pad, words |-> LowerAll(text.words)]

\* Whether the pattern of `keyword` matches the tokens of the lowered text at
\* position i: the pattern is \b w1 [\s\u200c]* w2 ... \b, compiled with
\* IGNORECASE.
MatchesAt(words, keyword, i) ==
    LET kw == KeywordWords(keyword)
    IN  /\ i + Len(kw) - 1 <= Len(words)
        /\ \A j \in 1..Len(kw) : words[i + j - 1] = Lower(kw[j])

\* len(pattern.findall(text_lower)): the non-overlapping matches, left to right.
RECURSIVE FindallFrom(_, _, _)
FindallFrom(words, keyword, i) ==
    IF i > Len(words) THEN 0
    ELSE IF MatchesAt(words, keyword, i)
         THEN 1 + FindallFrom(words, keyword, i + Len(KeywordWords(keyword)))
         ELSE FindallFrom(words, keyword, i + 1)

Findall(text_lower, keyword) == FindallFrom(text_lower.words, keyword, 1)

\* idf = 1.0 + len(keyword) / 10
Idf(keyword) == Rat(10 + Len(keyword), 10)

\* A faulty variant of the keyword score: the length is weighed by twelfths and
\* each further word of a phrase adds 0.35.
KeywordScoreByWords(weight_boost, keyword, count, text_len) ==
    LET tf == Rat(count, IF text_len > 1 THEN text_len ELSE 1)
        specificity == RAdd(RAdd(One, Rat(Len(keyword), 12)),
                            Rat(35 * (Len(KeywordWords(keyword)) - 1), 100))
    IN  RMul(RMul(tf, specificity), weight_boost)

\* score = tf * idf * cat.weight_boost, with tf = count / max(text_len, 1)
KeywordScore(weight_boost, keyword, count, text_len) ==
    LET tf == Rat(count, IF text_len > 1 THEN text_len ELSE 1)
    IN  RMul(RMul(tf, Idf(keyword)), weight_boost)

\* matches[cat_name]: the (keyword, count) pairs of the keywords found, from
\* the k-th keyword on.
RECURSIVE Matches(_, _, _)
Matches(keywords, text_lower, k) ==
    IF k > Len(keywords) THEN << >>
    ELSE (IF Findall(text_lower, keywords[k]) > 0
          THEN << <<keywords[k], Findall(text_lower, keywords[k])>> >>
          ELSE << >>)
             \o Matches(keywords, text_lower, k + 1)

\* scores[cat_name]: the sum of the scores of the keywords found.
RECURSIVE SumScores(_, _, _)
SumScores(weight_boost, matches, text_len) ==
    IF matches = << >> THEN Zero
    ELSE RAdd(KeywordScore(weight_boost, Head(matches)[1], Head(matches)[2], text_len),
              SumScores(weight_boost, Tail(matches), text_len))

\* The loop over compiled_patterns from the i-th category on: the entries of
\* `scores` and `matches`, in the order the loop inserts them.  A category
\* with no keyword found gets no entry.
RECURSIVE ScoreItems(_, _, _)
ScoreItems(catalog, text_lower, i) ==
    IF i > Len(catalog.order) THEN << >>
    ELSE LET cat == catalog.cats[catalog.order[i]]
             matches == Matches(cat.keywords, text_lower, 1)
         IN  (IF matches = << >> THEN << >>
              ELSE << [cat |-> catalog.order[i],
                       score |-> SumScores(cat.weight_boost, matches,
                                           TokenCount(text_lower)),
                       matches |-> matches] >>)
                 \o ScoreItems(catalog, text_lower, i + 1)

\* sum(scores.values())
RECURSIVE Total(_)
Total(items) ==
    IF items = << >> THEN Zero ELSE RAdd(Head(items).score, Total(Tail(items)))

\* A faulty variant of the normalisation: the raw scores are kept.
Unnormalized(items, total) == [i \in 1..Len(items) |-> <<items[i].cat, items[i].score>>]

\* {k: v / total for k, v in scores.items()}, as (key, value) pairs in order.
RECURSIVE Normalized(_, _)
Normalized(items, total) ==
    IF items = << >> THEN << >>
    ELSE << <<Head(items).cat, RDiv(Head(items).score, total)>> >>
             \o Normalized(Tail(items), total)

\* A faulty variant of the sort: the entries stay in dict order.
Unsorted(pairs) == pairs

\* sorted(pairs, key=value, reverse=True): stable, so equal values keep their
\* order.
RECURSIVE SortedDesc(_)
SortedDesc(pairs) ==
    IF pairs = << >> THEN << >>
    ELSE LET best == CHOOSE i \in 1..Len(pairs) :
                        /\ \A j \in 1..Len(pairs) : RLe(pairs[j][2], pairs[i][2])
                        /\ \A j \in 1..(i - 1) : RLt(pairs[j][2], pairs[i][2])
         IN  <<pairs[best]>>
                 \o SortedDesc(SubSeq(pairs, 1, best - 1) \o SubSeq(pairs, best + 1, Len(pairs)))

FirstN(s, n) == SubSeq(s, 1, IF Len(s) < n THEN Len(s) ELSE n)

\* The result for a text that is empty or shorter than MinTextLen once stripped.
InsufficientTextResult ==
    [label |-> "other", label_fa |-> "fa:other", confidence |-> <<1, 10>>,
     top_categories |-> << <<"other", <<1, 10>>>> >>,
     all_scores |-> << >>, method |-> "insufficient_text"]

\* A faulty variant of the no-match result: the short-text answer is reused.
NoMatchAsShortText == InsufficientTextResult

\* The result for a text in which no keyword is found.
NoMatchResult ==
    [label |-> "other", label_fa |-> "fa:other", confidence |-> <<15, 100>>,
     top_categories |-> << <<"other", <<15, 100>>>> >>,
     all_scores |-> << >>, method |-> "no_match"]

\* Below this best score the keyword classifier answers "other".
LowConfidence == <<1, 10>>

\* The confidence it then reports.
LowConfidenceValue == <<2, 10>>

\* AdvancedRegexCategorizer.classify from the normalisation on: items are the
\* entries of `scores` and `matches` the loop over the patterns has made.
RegexRank(catalog, items) ==
    LET total == Total(items)
    IN  IF RLe(total, Zero) THEN NoMatchResult
        ELSE
          LET normalized == Normalized(items, total)
              top_cats == FirstN(SortedDesc(normalized), TopN)
              low == RLt(top_cats[1][2], LowConfidence)
              best_cat == IF low THEN "other" ELSE top_cats[1][1]
              best_conf == IF low THEN LowConfidenceValue ELSE top_cats[1][2]
          IN  [label |-> best_cat,
               label_fa |-> catalog.cats[best_cat].name_fa,
               confidence |-> best_conf,
               top_categories |-> top_cats,
               all_scores |-> normalized,
               matched_keywords |->
                   [i \in 1..Len(items) |-> <<items[i].cat, items[i].matches>>],
               method |-> "regex_tfidf"]

\* AdvancedRegexCategorizer.classify(text).  (The lowered text and the loop's
\* entries are bound as values, so that each is computed once.)
RegexClassify(catalog, text) ==
    IF TextLen(text) = 0 \/ StripLen(text) < MinTextLen THEN InsufficientTextResult
    ELSE CHOOSE result \in
             {RegexRank(catalog, items) :
                 items \in {ScoreItems(catalog, text_lower, 1) :
                               text_lower \in {TextLower(text)}}} : TRUE

(* ---------------------------- HybridCategorizer ------------------------ *)

\* What one call of the zero-shot pipeline does: it raises, or it returns its
\* labels ranked, of which the first and its score are read.
MlLabels == {"fa:other", "fa:news", "fa:crypto", "fa:tech_ai"}

MlScores == {<<3, 10>>, <<1, 1>>}

MlOutcomes ==
    {[kind |-> "raise"]} \cup
    {[kind |-> "ok", label_fa |-> l, score |-> s] : l \in MlLabels, s \in MlScores}

\* HybridCategorizer._ml_classify(text), given what the pipeline returned.
MlClassify(catalog, ml) ==
    LET hits == SelectSeq(catalog.order, LAMBDA c : catalog.cats[c].name_fa = ml.label_fa)
    IN  [label |-> IF hits = << >> THEN "other" ELSE Head(hits),
         label_fa |-> ml.label_fa,
         confidence |-> ml.score,
         method |-> "ml_zero_shot"]

RegexWeight == <<6, 10>>

MlWeight == <<4, 10>>

\* The cap on the confidence of two agreeing classifiers.
AgreementCap == <<95, 100>>

\* A faulty variant of the agreement confidence: the sum without its cap.
UncappedConfidence(regex_conf, ml_conf) == RAdd(regex_conf, ml_conf)

\* The confidence reported when both classifiers give one label.
AgreementConfidence(regex_conf, ml_conf) == RMin(RAdd(regex_conf, ml_conf), AgreementCap)

\* HybridCategorizer._combine_results(regex_result, ml_result)
CombineResults(regex_result, ml_result) ==
    IF regex_result.label = ml_result.label
    THEN [label |-> regex_result.label,
          label_fa |-> regex_result.label_fa,
          confidence |-> AgreementConfidence(regex_result.confidence, ml_result.confidence),
          top_categories |-> regex_result.top_categories,
          method |-> "hybrid_agreement",
          regex_result |-> regex_result,
          ml_result |-> ml_result]
    ELSE
      LET regex_score == RMul(regex_result.confidence, RegexWeight)
          ml_score == RMul(ml_result.confidence, MlWeight)
          regex_wins == RLe(ml_score, regex_score)
          winner == IF regex_wins THEN regex_result ELSE ml_result
      IN  [label |-> winner.label,
           label_fa |-> winner.label_fa,
           confidence |-> RMax(regex_score, ml_score),
           method |-> IF regex_wins THEN "hybrid_regex_wins" ELSE "hybrid_ml_wins",
           regex_result |-> regex_result,
           ml_result |-> ml_result]

\* At or above this keyword confidence the ML step is skipped.
HighConfidence == <<4, 10>>

\* A faulty variant: the pipeline is called whatever the keyword confidence.
MlAlwaysInvoked(regex_result, hybrid, use_ml) ==
    use_ml /\ hybrid.ml_available /\ hybrid.ml_classifier # "None"

\* Whether HybridCategorizer.classify calls the pipeline, given the keyword
\* classifier's result for the text.
MlInvoked(regex_result, hybrid, use_ml) ==
    /\ RLt(regex_result.confidence, HighConfidence)
    /\ use_ml
    /\ hybrid.ml_available
    /\ hybrid.ml_classifier # "None"

Return(value) == [kind |-> "return", value |-> value]

Raise(exc) == [kind |-> "raise", exc |-> exc]

\* A faulty variant of the handler: the pipeline's exception reaches the caller.
MlFailureRaised(regex_result) == Raise("Exception")

\* What HybridCategorizer.classify does when the ML step raised: the handler
\* prints and control falls through to the keyword result.
MlFailed(regex_result) == Return(regex_result)

\* HybridCategorizer.classify from its second statement on: regex_result is
\* what the keyword classifier returned, ml what the pipeline does if called.
HybridClassifyFrom(regex_result, catalog, hybrid, use_ml, ml) ==
    IF RLe(HighConfidence, regex_result.confidence)
    THEN Return([regex_result EXCEPT !.method = "regex_high_confidence"])
    ELSE IF MlInvoked(regex_result, hybrid, use_ml)
         THEN IF ml.kind = "raise"
              THEN MlFailed(regex_result)
              ELSE CHOOSE combined \in {Return(CombineResults(regex_result, ml_result)) :
                                           ml_result \in {MlClassify(catalog, ml)}} : TRUE
         ELSE Return(regex_result)

\* HybridCategorizer.classify(text, use_ml)
HybridClassify(catalog, hybrid, text, use_ml, ml) ==
    HybridClassifyFrom(RegexClassify(catalog, text), catalog, hybrid, use_ml, ml)

\* A faulty variant: a pipeline failure switches ML off for later calls.
MlDisabledOnFailure(hybrid, ml) ==
    IF ml.kind = "raise" THEN [hybrid EXCEPT !.ml_available = FALSE] ELSE hybrid

\* A faulty variant: every call leaves ML switched off behind it.
MlDisabledAfterCall(hybrid, ml) == [hybrid EXCEPT !.ml_available = FALSE]

\* The classifier's ML state after a call in which the pipeline did `ml`:
\* classify assigns no attribute, whether the pipeline raised or not.
HybridAfterCall(hybrid, ml) == hybrid

\* HybridCategorizer.__init__(use_ml) with _init_ml_classifier: the pipeline
\* is loaded only if asked for and transformers was imported, and a failed
\* load leaves the classifier without ML.
HybridInit(use_ml, transformers_imported, load_ok) ==
    IF use_ml /\ transformers_imported /\ load_ok
    THEN [built |-> TRUE, ml_available |-> TRUE, ml_classifier |-> "pipeline"]
    ELSE [built |-> TRUE, ml_available |-> FALSE, ml_classifier |-> "None"]

(* -------------------------- ProductionCategorizer ---------------------- *)

\* The parameters ProductionCategorizer.classify declares besides self.
ClassifyParams == {"text"}

\* A faulty variant of the group lookup: the loop stops at the first group.
FirstGroupFound(catalog, label) == Head(catalog.group_order)

\* The group of a label: the first group, in table order, that lists it.
GroupOf(catalog, label) ==
    LET hits == SelectSeq(catalog.group_order,
                          LAMBDA g : \E i \in 1..Len(catalog.groups[g]) :
                                         catalog.groups[g][i] = label)
    IN  IF hits = << >> THEN "None" ELSE Head(hits)

\* ProductionCategorizer.classify after the hybrid classifier has answered:
\* the group and the description of the label are added to its result.
AttachGroup(catalog, got) ==
    IF got.kind = "raise" THEN got
    ELSE IF got.value.label \notin DOMAIN catalog.cats THEN Raise("KeyError")
    ELSE Return(got.value @@
                [category_group |-> GroupOf(catalog, got.value.label),
                 category_description |-> catalog.cats[got.value.label].description])

\* ProductionCategorizer.classify called with these keyword arguments: a
\* keyword the method does not declare is a TypeError before its body runs.
\* regex_result is what the keyword classifier returns for the text.  (Here and
\* in HybridClassifyFrom an intermediate result is bound as a value, so that it
\* is computed once.)
ProductionClassifyFrom(regex_result, catalog, hybrid, kwargs, ml) ==
    IF ~(kwargs \subseteq ClassifyParams) THEN Raise("TypeError")
    ELSE CHOOSE out \in {AttachGroup(catalog, got) :
                            got \in {HybridClassifyFrom(regex_result, catalog, hybrid, TRUE, ml)}} :
             TRUE

\* ProductionCategorizer.classify(text, **kwargs)
ProductionClassify(catalog, hybrid, text, kwargs, ml) ==
    ProductionClassifyFrom(RegexClassify(catalog, text), catalog, hybrid, kwargs, ml)

(* ------------------------------- state --------------------------------- *)

VARIABLES
    catalog,        \* which tables the module defines (a name of CatalogNames)
    ML_AVAILABLE,   \* production_categorizer.ML_AVAILABLE: transformers imported
    categorizer,    \* the HybridCategorizer of the ProductionCategorizer
    text,           \* the text under classification
    segments,       \* the segments argument of the last call, if one was given
    calls,          \* classify calls made on the categorizer
    ml_log,         \* how each call of the zero-shot pipeline ended, in order
    last_ml,        \* what the pipeline did in the last call
    outcome,        \* how the last call ended
    worker,         \* the pipeline worker's run
    threads,        \* classify calls in progress on one classifier, and their scratch
    eboo            \* one call of an EbooClient operation

vars ==
    <<catalog, ML_AVAILABLE, categorizer, text, segments, calls, ml_log, last_ml, outcome,
      worker, threads, eboo>>

\* No ProductionCategorizer built yet.
NotBuilt == [built |-> FALSE, ml_available |-> FALSE, ml_classifier |-> "None"]

NoSegments == [given |-> FALSE, list |-> << >>]

NotInvoked == [kind |-> "not_invoked"]

NoOutcome == [kind |-> "none"]

\* The worker before its run starts.
WorkerIdle ==
    [app |-> "app_production", pc |-> "idle", token_set |-> TRUE, use_ml |-> TRUE,
     app_ml_available |-> TRUE,
     extracted |-> FALSE, duration |-> 0, credit |-> 0, n_segments |-> 0, idx |-> 0,
     parts |-> << >>, uploaded |-> {}, deleted |-> {}, delete_log |-> << >>, pred |-> "none", signals |-> << >>]

\* No concurrent calls under way.
NoThreads == [calls |-> << >>, scratch |-> << >>]

\* No EbooClient operation under way.
EbooIdle ==
    [op |-> "none", pc |-> "idle", attempt |-> 0, strategy |-> 0, requests |-> 0,
     sleeps |-> 0, last |-> [kind |-> "none", status |-> "", code |-> 0],
     last_attempt |-> 0, last_strategy |-> 0, slept |-> FALSE, all_transient |-> TRUE,
     result |-> [kind |-> "none"]]

InitWith(names) ==
    /\ catalog \in names
    /\ ML_AVAILABLE \in BOOLEAN
    /\ categorizer = NotBuilt
    /\ text \in Texts
    /\ segments = NoSegments
    /\ calls = 0
    /\ ml_log = << >>
    /\ last_ml = NotInvoked
    /\ outcome = NoOutcome
    /\ worker = WorkerIdle
    /\ threads = NoThreads
    /\ eboo = EbooIdle

Init == InitWith({"builtin"})

(* ------------------------------ actions -------------------------------- *)

\* ProductionCategorizer(use_ml): builds the HybridCategorizer; the catalog is
\* taken as the module defines it, unexamined.
Construct(use_ml, load_ok) ==
    /\ ~categorizer.built
    /\ categorizer' = HybridInit(use_ml, ML_AVAILABLE, load_ok)
    /\ UNCHANGED <<catalog, ML_AVAILABLE, text, segments, calls, ml_log, last_ml, outcome,
                   worker, threads, eboo>>

\* categorizer.classify(text)
Classify ==
    /\ categorizer.built
    /\ calls < MaxCalls
    /\ \E regex_result \in {RegexClassify(Catalog(catalog), text)} :
         LET invoked == MlInvoked(regex_result, categorizer, TRUE)
         IN  \E ml \in IF invoked THEN MlOutcomes ELSE {NotInvoked} :
                 /\ outcome' = ProductionClassifyFrom(regex_result, Catalog(catalog),
                                                      categorizer, {}, ml)
                 /\ last_ml' = ml
                 /\ ml_log' = IF invoked THEN Append(ml_log, ml.kind) ELSE ml_log
                 /\ categorizer' = HybridAfterCall(categorizer, ml)
    /\ segments' = NoSegments
    /\ calls' = calls + 1
    /\ UNCHANGED <<catalog, ML_AVAILABLE, text, worker, threads, eboo>>

\* The segment lists a call may pass: none, blank ones only, the text itself.
SegmentLists ==
    {<< >>, <<[pad |-> MaxPad, words |-> << >>]>>, <<text>>}

\* categorizer.classify(text, segments=segs)
ClassifyWithSegments(segs) ==
    /\ categorizer.built
    /\ calls < MaxCalls
    /\ outcome' = ProductionClassify(Catalog(catalog), categorizer, text, {"segments"},
                                     NotInvoked)
    /\ last_ml' = NotInvoked
    /\ segments' = [given |-> TRUE, list |-> segs]
    /\ calls' = calls + 1
    /\ UNCHANGED <<catalog, ML_AVAILABLE, categorizer, text, ml_log, worker, threads, eboo>>

Next ==
    \/ \E use_ml \in BOOLEAN, load_ok \in BOOLEAN : Construct(use_ml, load_ok)
    \/ Classify
    \/ \E segs \in SegmentLists : ClassifyWithSegments(segs)

Spec == Init /\ [][Next]_vars

(* ------------------------ EnhancedPipelineWorker ----------------------- *)

\* The longest audio, in seconds, and the segment_sec setting, scaled down.
MaxDuration == 4

SegmentSec == 2

\* What checkcredit may report as AudioTranscribeCredit.
Credits == {0, 1, MaxDuration}

\* The transcripts a segment may get: a stripped text of one or two words.
SegmentTexts ==
    {[pad |-> 0, words |-> <<"breaking">>],
     [pad |-> 0, words |-> <<"blockchain", "blockchain">>]}

\* str.strip() of a text of the model.
Strip(t) == [pad |-> 0, words |-> t.words]

\* len(segments): the wav itself, or the chunks ffmpeg cuts it into.
SegmentCount(duration_sec) ==
    IF duration_sec > SegmentSec
    THEN (duration_sec + SegmentSec - 1) \div SegmentSec
    ELSE 1

RECURSIVE JoinParts(_)
\* The words of "\n".join([p.strip() for p in full_text_parts if p.strip()])
JoinParts(parts) ==
    IF parts = << >> THEN << >> ELSE Head(parts).words \o JoinParts(Tail(parts))

\* merged_text
MergedText(parts) == [pad |-> 0, words |-> JoinParts(parts)]

\* A faulty variant of the except clauses: the run ends in silence.
NoSignal(w) == [w EXCEPT !.pc = "done"]

\* The except clauses of run: the error signal is emitted and run returns.
EmitError(w) == [w EXCEPT !.pc = "done", !.signals = Append(@, "error")]

\* The run after a settings dialog: with or without a token, smart
\* classification on or off, the categorizer module imported or not.
WorkerStarts ==
    {[WorkerIdle EXCEPT !.token_set = t, !.use_ml = u, !.app_ml_available = a] :
        t \in BOOLEAN, u \in BOOLEAN, a \in BOOLEAN}

\* A run of the PipelineWorker of app.py.
PipelineStart == [WorkerIdle EXCEPT !.app = "app", !.pc = "p_extract"]

\* The except clause of PipelineWorker.run: failed is emitted.
EmitFailed(w) == [w EXCEPT !.pc = "done", !.signals = Append(@, "failed")]

InitWorker ==
    /\ catalog = "builtin"
    /\ ML_AVAILABLE \in BOOLEAN
    /\ categorizer = NotBuilt
    /\ text = [pad |-> 0, words |-> << >>]
    /\ segments = NoSegments
    /\ calls = 0
    /\ ml_log = << >>
    /\ last_ml = NotInvoked
    /\ outcome = NoOutcome
    /\ worker \in WorkerStarts \cup {PipelineStart}
    /\ threads = NoThreads
    /\ eboo = EbooIdle

ClassifierUnchanged ==
    UNCHANGED <<catalog, ML_AVAILABLE, categorizer, text, segments, calls, ml_log, last_ml,
                outcome, threads, eboo>>

\* run: the token check.
WorkerStart ==
    /\ worker.pc = "idle"
    /\ worker' = IF worker.token_set THEN [worker EXCEPT !.pc = "extract"]
                 ELSE EmitError(worker)
    /\ ClassifierUnchanged

\* run: extract_audio and get_wav_duration_seconds.
WorkerExtract(ok, duration_sec) ==
    /\ worker.pc = "extract"
    /\ worker' = IF ok THEN [worker EXCEPT !.pc = "credit", !.extracted = TRUE,
                                           !.duration = duration_sec]
                 ELSE EmitError(worker)
    /\ ClassifierUnchanged

\* run: client.checkcredit() and the credit test.
WorkerCheckCredit(resp) ==
    /\ worker.pc = "credit"
    /\ worker' = IF resp.kind = "raise" THEN EmitError(worker)
                 ELSE IF resp.credit # 0 /\ resp.credit < worker.duration
                      THEN EmitError(worker)
                      ELSE [worker EXCEPT !.pc = "split", !.credit = resp.credit]
    /\ ClassifierUnchanged

\* run: the segment list; ffmpeg runs only for an audio longer than a segment.
WorkerSplit(ffmpeg_ok) ==
    /\ worker.pc = "split"
    /\ worker' = IF worker.duration > SegmentSec /\ ~ffmpeg_ok THEN EmitError(worker)
                 ELSE [worker EXCEPT !.pc = "upload", !.idx = 1,
                                     !.n_segments = SegmentCount(worker.duration)]
    /\ ClassifierUnchanged

\* run, in the loop: client.addfile_by_upload(seg) and the FileToken test.
WorkerUpload(resp) ==
    /\ worker.pc = "upload"
    /\ worker' = IF resp = "ok"
                 THEN [worker EXCEPT !.pc = "convert", !.uploaded = @ \cup {worker.idx}]
                 ELSE EmitError(worker)
    /\ ClassifierUnchanged

\* run, in the loop: client.convert_audio(filetoken).
WorkerConvert(ok) ==
    /\ worker.pc = "convert"
    /\ worker' = IF ok THEN [worker EXCEPT !.pc = "wait"] ELSE EmitError(worker)
    /\ ClassifierUnchanged

\* run, in the loop: client.wait_for_audio_text(filetoken), the test of its
\* Output and the normalisation, which leaves the words of these texts alone.
WorkerWait(resp) ==
    /\ worker.pc = "wait"
    /\ worker' = IF resp.kind = "raise" \/ IsBlank(Strip(resp.output)) THEN EmitError(worker)
                 ELSE [worker EXCEPT !.pc = "delete",
                                     !.parts = Append(@, Strip(resp.output))]
    /\ ClassifierUnchanged

\* What a deletefile request may meet: a JSON object with a good or an error
\* Status, a body that is not JSON, or a requests.RequestException.
DeleteResponses ==
    {[kind |-> "json", status |-> st] : st \in {"Done", "FileDeletedFromServer"}} \cup
    {[kind |-> "nonjson", status |-> ""], [kind |-> "network", status |-> ""]}

\* EbooClient.deletefile(filetoken): every response is returned as a JSON
\* object, a substitute one if the body was not JSON; the exception of the
\* request is let through.
deletefile(resp) ==
    CASE resp.kind = "json" -> Return(resp.status)
      [] resp.kind = "nonjson" -> Return("NonJSON")
      [] resp.kind = "network" -> Raise("RequestException")

\* A faulty variant of the handler around deletefile: the exception ends the run.
DeleteFailureRaised(w, result) ==
    IF result.kind = "raise" THEN EmitError(w) ELSE w

\* The handler around deletefile: `except Exception: pass`.
DeleteFailurePassed(w, result) == w

\* run, in the loop: client.deletefile(filetoken), whose failure is passed
\* over, and the step to the next segment.
WorkerDelete(resp) ==
    /\ worker.pc = "delete"
    /\ LET result == deletefile(resp)
           called == [worker EXCEPT !.deleted = @ \cup {worker.idx},
                                    !.delete_log = Append(@, result)]
           after == DeleteFailurePassed(called, result)
       IN  worker' = IF after.pc = "done" THEN after
                     ELSE [after EXCEPT !.idx = @ + 1,
                                        !.pc = IF worker.idx = worker.n_segments
                                               THEN "classify" ELSE "upload"]
    /\ ClassifierUnchanged

\* run: the merged text and the classification step.
WorkerClassify(load_ok) ==
    /\ worker.pc = "classify"
    /\ text' = MergedText(worker.parts)
    /\ IF worker.app_ml_available /\ worker.use_ml
       THEN \E built \in {HybridInit(TRUE, ML_AVAILABLE, load_ok)} :
              \E out \in {ProductionClassify(Catalog(catalog), built, text',
                                             {"segments"}, NotInvoked)} :
                /\ categorizer' = built
                /\ outcome' = out
                /\ segments' = [given |-> TRUE, list |-> worker.parts]
                /\ calls' = calls + 1
                /\ worker' = IF out.kind = "raise" THEN EmitError(worker)
                             ELSE [worker EXCEPT !.pc = "write", !.pred = "classified"]
       ELSE /\ worker' = [worker EXCEPT !.pc = "write", !.pred = "fallback"]
            /\ UNCHANGED <<categorizer, outcome, segments, calls>>
    /\ UNCHANGED <<catalog, ML_AVAILABLE, ml_log, last_ml, threads, eboo>>

\* run: result.json and transcript.txt are written and result is emitted,
\* unless the writing raises.
WorkerWrite(ok) ==
    /\ worker.pc = "write"
    /\ worker' = IF ok THEN [worker EXCEPT !.pc = "done", !.signals = Append(@, "result")]
                 ELSE EmitError(worker)
    /\ ClassifierUnchanged

\* PipelineWorker.run: extract_audio.
PipelineExtract(ok) ==
    /\ worker.pc = "p_extract"
    /\ worker' = IF ok THEN [worker EXCEPT !.pc = "p_transcribe", !.extracted = TRUE]
                 ELSE EmitFailed(worker)
    /\ ClassifierUnchanged

\* PipelineWorker.run: transcriber.transcribe(wav_path).
PipelineTranscribe(ok) ==
    /\ worker.pc = "p_transcribe"
    /\ worker' = IF ok THEN [worker EXCEPT !.pc = "p_classify"] ELSE EmitFailed(worker)
    /\ ClassifierUnchanged

\* PipelineWorker.run: classify_text(asr["text"]).
PipelineClassify(ok) ==
    /\ worker.pc = "p_classify"
    /\ worker' = IF ok THEN [worker EXCEPT !.pc = "p_write", !.pred = "classified"]
                 ELSE EmitFailed(worker)
    /\ ClassifierUnchanged

\* PipelineWorker.run: result.json is written and finished is emitted.
PipelineWrite(ok) ==
    /\ worker.pc = "p_write"
    /\ worker' = IF ok THEN [worker EXCEPT !.pc = "done", !.signals = Append(@, "finished")]
                 ELSE EmitFailed(worker)
    /\ ClassifierUnchanged

CreditResponses == {[kind |-> "raise", credit |-> 0]} \cup
                   {[kind |-> "ok", credit |-> c] : c \in Credits}

WaitResponses == {[kind |-> "raise", output |-> [pad |-> 0, words |-> << >>]]} \cup
                 {[kind |-> "ok", output |-> [pad |-> p, words |-> t.words]] :
                     t \in SegmentTexts, p \in {0, 1}}

NextWorker ==
    \/ WorkerStart
    \/ \E ok \in BOOLEAN, d \in 0..MaxDuration : WorkerExtract(ok, d)
    \/ \E resp \in CreditResponses : WorkerCheckCredit(resp)
    \/ \E ok \in BOOLEAN : WorkerSplit(ok)
    \/ \E resp \in {"ok", "raise", "no_token"} : WorkerUpload(resp)
    \/ \E ok \in BOOLEAN : WorkerConvert(ok)
    \/ \E resp \in WaitResponses : WorkerWait(resp)
    \/ \E resp \in DeleteResponses : WorkerDelete(resp)
    \/ \E load_ok \in BOOLEAN : WorkerClassify(load_ok)
    \/ \E ok \in BOOLEAN : WorkerWrite(ok)
    \/ \E ok \in BOOLEAN : PipelineExtract(ok)
    \/ \E ok \in BOOLEAN : PipelineTranscribe(ok)
    \/ \E ok \in BOOLEAN : PipelineClassify(ok)
    \/ \E ok \in BOOLEAN : PipelineWrite(ok)

SpecWorker == InitWorker /\ [][NextWorker]_vars

(* ------------------------ catalogs other than the built-in ------------- *)

\* The classifier over any of the catalogs, valid or not.
SpecCatalog == InitWith(CatalogNames) /\ [][Next]_vars

(* ------------------------------ properties ----------------------------- *)

\* A classify call on the text alone has been made and has returned.
SingleTextReturned == calls > 0 /\ ~segments.given /\ outcome.kind = "return"

\* The tags of results that come from the keyword classifier alone.
KeywordMethods == {"regex_tfidf", "regex_high_confidence", "no_match", "insufficient_text"}

\* No keyword of any category of the catalog occurs in the text.
NoKeywordOccurs(cat, t) ==
    \E text_lower \in {TextLower(t)} :
        \A c \in DOMAIN cat.cats :
            \A k \in 1..Len(cat.cats[c].keywords) :
                Findall(text_lower, cat.cats[c].keywords[k]) = 0

RECURSIVE GroupMembers(_, _)
\* The members of the groups from the k-th group on, in table order.
GroupMembers(cat, k) ==
    IF k > Len(cat.group_order) THEN << >>
    ELSE cat.groups[cat.group_order[k]] \o GroupMembers(cat, k + 1)

\* Every category is listed exactly once in the group table, and every name
\* the table lists is a category.
ValidCatalog(cat) ==
    \E members \in {GroupMembers(cat, 1)} :
        /\ \A c \in DOMAIN cat.cats :
               Cardinality({i \in 1..Len(members) : members[i] = c}) = 1
        /\ \A i \in 1..Len(members) : members[i] \in DOMAIN cat.cats

\* The tables as the module defines them pass that test.
BuiltinCatalogValid == ValidCatalog(BuiltinCatalog)

\* C1, as the specification states it: a classify call on a text shorter than
\* 20 characters returns label "other", confidence 0.10 and method
\* "insufficient_text", with or without ML.
C1_ShortTextIsInsufficient ==
    (calls > 0 /\ ~segments.given /\ TextLen(text) < MinTextLen) =>
        /\ outcome.kind = "return"
        /\ outcome.value.label = "other"
        /\ REq(outcome.value.confidence, <<1, 10>>)
        /\ outcome.value.method = "insufficient_text"

\* C2: when the ML step of a classify call raises, the call still returns, and
\* what it returns is the keyword classifier's result for the text (with group
\* and description attached), carrying a keyword-only method tag.
C2_MlFailureFallsBack ==
    (calls > 0 /\ last_ml.kind = "raise") =>
        /\ outcome.kind = "return"
        /\ outcome.value.method \in KeywordMethods
        /\ outcome = AttachGroup(Catalog(catalog),
                                 Return(RegexClassify(Catalog(catalog), text)))

\* A call whose ML step raised, on a text with keyword matches.
C2_Witness ==
    /\ calls > 0
    /\ last_ml.kind = "raise"
    /\ outcome.kind = "return"
    /\ outcome.value.method = "regex_tfidf"

\* C3, as the specification states it: a worker run in which the extraction
\* and the transcription of every segment succeeded and smart classification
\* is enabled ends with the result signal, not the error signal.
C3_SmartRunEmitsResult ==
    (/\ worker.pc = "done"
     /\ worker.extracted
     /\ worker.n_segments > 0
     /\ Len(worker.parts) = worker.n_segments
     /\ worker.use_ml
     /\ worker.app_ml_available) =>
        worker.signals = <<"result">>

\* C4: every result a classify call returns has a confidence in [0, 1].
C4_ConfidenceInUnitInterval ==
    outcome.kind = "return" =>
        /\ RLe(Zero, outcome.value.confidence)
        /\ RLe(outcome.value.confidence, One)

\* Both classifiers agree and the sum of their confidences exceeds the cap.
C4_Witness ==
    /\ outcome.kind = "return"
    /\ outcome.value.method = "hybrid_agreement"
    /\ RLt(One, RAdd(outcome.value.regex_result.confidence,
                     outcome.value.ml_result.confidence))

\* C5, as the specification states it: a text of at least 20 characters with
\* no keyword match and no ML contribution is answered with label "other",
\* confidence 0.15 and method "no_signal".
C5_NoSignalTag ==
    (/\ SingleTextReturned
     /\ TextLen(text) >= MinTextLen
     /\ NoKeywordOccurs(Catalog(catalog), text)
     /\ last_ml.kind # "ok") =>
        /\ outcome.value.label = "other"
        /\ REq(outcome.value.confidence, <<15, 100>>)
        /\ outcome.value.method = "no_signal"

\* C5, amended: a text of at least 20 characters once stripped, in which no
\* keyword occurs, classified without an ML answer (ML off, unavailable or
\* failed), is answered with label "other", confidence 0.15 and method
\* "no_match".
C5_NoMatchFallback ==
    (/\ SingleTextReturned
     /\ StripLen(text) >= MinTextLen
     /\ NoKeywordOccurs(Catalog(catalog), text)
     /\ last_ml.kind # "ok") =>
        /\ outcome.value.label = "other"
        /\ REq(outcome.value.confidence, <<15, 100>>)
        /\ outcome.value.method = "no_match"

\* A long text without keywords has been classified without an ML answer.
C5_Witness ==
    /\ SingleTextReturned
    /\ StripLen(text) >= MinTextLen
    /\ NoKeywordOccurs(Catalog(catalog), text)
    /\ last_ml.kind = "raise"

\* C6, as the specification states it: no returned result has a label other
\* than "other" with a confidence below 0.20.
C6_NoWeakLabel ==
    outcome.kind = "return" =>
        (outcome.value.label # "other" => RLe(<<2, 10>>, outcome.value.confidence))

\* C7: in the built-in catalog every category of CATEGORIES_DETAILED is a
\* member of exactly one group of CATEGORY_GROUPS and every member of a group
\* is a category.
C7_BuiltinCatalogPartitioned ==
    catalog = "builtin" => BuiltinCatalogValid

\* A result whose label was looked up in the group table of the built-in catalog.
C7_Witness ==
    /\ catalog = "builtin"
    /\ outcome.kind = "return"
    /\ outcome.value.label = "crypto"
    /\ outcome.value.category_group = "economy"

\* C8, as the specification states it: from a catalog with an unassigned, a
\* multiply assigned or an undefined group member no classifier is built and
\* no classify call is served.
C8_InvalidCatalogRejected ==
    ~ValidCatalog(Catalog(catalog)) => (~categorizer.built /\ calls = 0)

\* C9, as the specification states it: a classify call with an empty segment
\* list, or one of blank segments only, returns what the call on the text
\* alone returns.
C9_BlankSegmentsAsSingleText ==
    (/\ calls > 0
     /\ segments.given
     /\ \A i \in 1..Len(segments.list) : IsBlank(segments.list[i])) =>
        /\ outcome.kind = "return"
        /\ \E ml \in MlOutcomes \cup {NotInvoked} :
               outcome = ProductionClassify(Catalog(catalog), categorizer, text, {}, ml)

\* C10: a classify call whose ML step raised leaves the classifier's ML state
\* as it was, and the next call on the text alone runs the ML step again.
C10_MlFailureIsLocal ==
    [][/\ (calls' = calls + 1 /\ last_ml'.kind = "raise") => categorizer' = categorizer
       /\ (calls' = calls + 1 /\ last_ml.kind = "raise" /\ ~segments'.given) =>
              /\ last_ml'.kind \in {"ok", "raise"}
              /\ ml_log' = Append(ml_log, last_ml'.kind)]_vars

\* The ML step failed in one call and answered in the next.
C10_Witness ==
    /\ calls = 2
    /\ ml_log = <<"raise", "ok">>
    /\ categorizer.ml_available

\* C11: every result a classify call returns has a label that is a category of
\* the catalog, a group that is set and lists that label, and the description
\* the catalog gives for that label.
C11_GroupAndDescriptionAttached ==
    outcome.kind = "return" =>
        /\ outcome.value.label \in DOMAIN Catalog(catalog).cats
        /\ outcome.value.category_group \in DOMAIN Catalog(catalog).groups
        /\ \E i \in 1..Len(Catalog(catalog).groups[outcome.value.category_group]) :
               Catalog(catalog).groups[outcome.value.category_group][i] = outcome.value.label
        /\ outcome.value.category_description =
               Catalog(catalog).cats[outcome.value.label].description

\* The ML answer prevailed and its label was looked up in the group table.
C11_Witness ==
    /\ outcome.kind = "return"
    /\ outcome.value.method = "hybrid_ml_wins"
    /\ outcome.value.label = "news"
    /\ outcome.value.category_group = "news_politics"

\* The most entries of a ranked list the result dialog shows.
MaxRanked == 8

\* categories.get("top_categories"): the ranked list of a result, none for a
\* result built from two disagreeing classifiers, which has no such key.
TopCategories(result) ==
    IF "top_categories" \in DOMAIN result THEN result.top_categories ELSE << >>

RECURSIVE SumValues(_)
\* sum(dist.values()) of a distribution kept as (key, value) pairs.
SumValues(dist) ==
    IF dist = << >> THEN Zero ELSE RAdd(Head(dist)[2], SumValues(Tail(dist)))

\* The per-category score distributions a result carries: its own all_scores
\* and that of the keyword result it embeds, where there is one.
Distributions(result) ==
    (IF "all_scores" \in DOMAIN result THEN {result.all_scores} ELSE {}) \cup
    (IF "regex_result" \in DOMAIN result THEN {result.regex_result.all_scores} ELSE {})

\* C13: every per-category score distribution in a returned result is empty,
\* or its values are non-negative and sum to 1.
C13_DistributionSumsToOne ==
    outcome.kind = "return" =>
        \A dist \in Distributions(outcome.value) :
            \/ dist = << >>
            \/ /\ \A i \in 1..Len(dist) : RLe(Zero, dist[i][2])
               /\ REq(SumValues(dist), One)

\* A returned distribution over three categories.
C13_Witness ==
    /\ outcome.kind = "return"
    /\ \E dist \in Distributions(outcome.value) : Len(dist) = 3

(* --------------------- concurrent calls on one classifier -------------- *)

\* Two threads, each making one classify call on the same ProductionCategorizer.
Threads == {"A", "B"}

\* The texts of the calls: a short one, one of a single category, a mixed one.
ConcurrentTexts ==
    {[pad |-> 0, words |-> <<"breaking">>],
     [pad |-> 0, words |-> <<"blockchain", "blockchain">>],
     [pad |-> 0, words |-> <<"blockchain", "breaking", "ChatGPT">>]}

\* A faulty variant: the scores are kept in an attribute of the classifier.
SharedSlot(t) == "self"

\* Where a call keeps `scores` and `matches`: in locals of its own frame.
ScoreSlot(t) == t

\* A call that has not started.
NewCall(t) ==
    [pc |-> "start", text |-> t, regex_result |-> NoOutcome, ml |-> NotInvoked,
     result |-> NoOutcome, interleaved |-> FALSE]

InitThreads ==
    /\ catalog = "builtin"
    /\ ML_AVAILABLE \in BOOLEAN
    /\ categorizer = HybridInit(TRUE, ML_AVAILABLE, TRUE)
    /\ text = [pad |-> 0, words |-> << >>]
    /\ segments = NoSegments
    /\ calls = 0
    /\ ml_log = << >>
    /\ last_ml = NotInvoked
    /\ outcome = NoOutcome
    /\ worker = WorkerIdle
    /\ eboo = EbooIdle
    /\ \E texts \in [Threads -> ConcurrentTexts] :
           threads = [calls |-> [t \in Threads |-> NewCall(texts[t])],
                      scratch |-> [s \in Threads \cup {"self"} |-> << >>]]

ThreadFrame ==
    UNCHANGED <<catalog, ML_AVAILABLE, text, segments, calls, ml_log, last_ml, outcome,
                worker, eboo>>

\* AdvancedRegexCategorizer.classify up to the end of the scoring loop, run by
\* thread t: the short-text return, or the scores of the text.
ThreadScore(t) ==
    LET call == threads.calls[t]
    IN  /\ call.pc = "start"
        /\ IF TextLen(call.text) = 0 \/ StripLen(call.text) < MinTextLen
           THEN threads' = [threads EXCEPT
                              !.calls[t].pc = "hybrid",
                              !.calls[t].regex_result = Return(InsufficientTextResult)]
           ELSE threads' = [threads EXCEPT
                              !.calls[t].pc = "rank",
                              !.calls[t].interleaved =
                                  \E u \in Threads \ {t} : threads.calls[u].pc = "rank",
                              !.scratch[ScoreSlot(t)] =
                                  ScoreItems(Catalog(catalog), TextLower(call.text), 1)]
        /\ categorizer' = categorizer
        /\ ThreadFrame

\* AdvancedRegexCategorizer.classify from the normalisation on, run by thread t.
ThreadRank(t) ==
    /\ threads.calls[t].pc = "rank"
    /\ threads' = [threads EXCEPT
                     !.calls[t].pc = "hybrid",
                     !.calls[t].regex_result =
                         Return(RegexRank(Catalog(catalog), threads.scratch[ScoreSlot(t)]))]
    /\ categorizer' = categorizer
    /\ ThreadFrame

\* The rest of the call of thread t: HybridCategorizer.classify after the
\* keyword result, and the group and description ProductionCategorizer adds.
ThreadHybrid(t) ==
    LET call == threads.calls[t]
    IN  /\ call.pc = "hybrid"
        /\ \E ml \in IF MlInvoked(call.regex_result.value, categorizer, TRUE)
                     THEN MlOutcomes ELSE {NotInvoked} :
               /\ threads' = [threads EXCEPT
                                !.calls[t].pc = "done",
                                !.calls[t].ml = ml,
                                !.calls[t].result =
                                    ProductionClassifyFrom(call.regex_result.value,
                                                           Catalog(catalog), categorizer, {}, ml)]
               /\ categorizer' = HybridAfterCall(categorizer, ml)
        /\ ThreadFrame

NextThreads ==
    \E t \in Threads : ThreadScore(t) \/ ThreadRank(t) \/ ThreadHybrid(t)

SpecThreads == InitThreads /\ [][NextThreads]_vars

\* C14: no step of a classify call changes the catalog tables or the
\* classifier, and each of two calls running concurrently on one classifier
\* returns what the same call returns when it runs alone.
C14_ConcurrentCallsIndependent ==
    /\ [](\A t \in Threads :
             threads.calls[t].pc = "done" =>
                 threads.calls[t].result =
                     ProductionClassify(Catalog(catalog), categorizer, threads.calls[t].text,
                                        {}, threads.calls[t].ml))
    /\ [][catalog' = catalog /\ categorizer' = categorizer]_vars

\* Both calls have returned, on different texts, and one of them scored its
\* text between the other's scoring and ranking.
C14_Witness ==
    /\ \A t \in Threads : threads.calls[t].pc = "done"
    /\ threads.calls["A"].text # threads.calls["B"].text
    /\ \E t \in Threads : threads.calls[t].interleaved

RECURSIVE MemberScore(_, _)
\* The sum of the raw keyword scores of those scored categories that the
\* member list of a group names.
MemberScore(items, members) ==
    IF items = << >> THEN Zero
    ELSE RAdd(IF \E i \in 1..Len(members) : members[i] = Head(items).cat
              THEN Head(items).score ELSE Zero,
              MemberScore(Tail(items), members))

\* The two groups of the highest keyword score for a text, a tie going to the
\* group that comes first in the group table.
TopTwoGroups(cat, t) ==
    LET items == ScoreItems(cat, TextLower(t), 1)
        scored == [k \in 1..Len(cat.group_order) |->
                      <<cat.group_order[k], MemberScore(items, cat.groups[cat.group_order[k]])>>]
        ranked == FirstN(SortedDesc(scored), 2)
    IN  {ranked[k][1] : k \in 1..Len(ranked)}

\* C15, as the specification states it: the category a call on a text alone
\* chooses (a label other than "other") lies in one of the two groups of the
\* highest group score.  Stated for texts long enough to be scored and with
\* at least one keyword match.
C15_LabelInTopTwoGroups ==
    (/\ SingleTextReturned
     /\ StripLen(text) >= MinTextLen
     /\ ~NoKeywordOccurs(Catalog(catalog), text)
     /\ outcome.value.label # "other") =>
        outcome.value.category_group \in TopTwoGroups(Catalog(catalog), text)

\* What the code lets a keyword found `count` times in a text of n tokens add
\* to its category's score: (count / n) x (1 + len(keyword) / 10) x weight_boost.
ContributionByTenths(count, n, keyword, weight_boost) ==
    RMul(RMul(Rat(count, IF n > 1 THEN n ELSE 1), RAdd(One, Rat(Len(keyword), 10))),
         weight_boost)

\* What the specification lets it add:
\* (count / n) x (1 + len(keyword) / 12 + 0.35 x (words - 1)) x weight_boost.
ContributionByTwelfths(count, n, keyword, weight_boost) ==
    RMul(RMul(Rat(count, IF n > 1 THEN n ELSE 1),
              RAdd(RAdd(One, Rat(Len(keyword), 12)),
                   Rat(35 * (Len(KeywordWords(keyword)) - 1), 100))),
         weight_boost)

\* The raw score of category c for text t under a contribution formula: the
\* sum over the keywords of c of what each one found in t adds.
RawScore(Contribution(_, _, _, _), cat, c, t) ==
    LET keywords == cat.cats[c].keywords
        text_lower == TextLower(t)
        sum[k \in 0..Len(keywords)] ==
            IF k = 0 THEN Zero
            ELSE RAdd(sum[k - 1],
                      IF Findall(text_lower, keywords[k]) = 0 THEN Zero
                      ELSE Contribution(Findall(text_lower, keywords[k]), TokenCount(t),
                                        keywords[k], cat.cats[c].weight_boost))
    IN  sum[Len(keywords)]

\* The raw scores of a classified text follow a contribution formula: the
\* scoring loop's entry for each category is the formula's sum, and the
\* distribution the call returns is those sums over their total.
RawScoresFollow(Contribution(_, _, _, _)) ==
    (/\ SingleTextReturned
     /\ StripLen(text) >= MinTextLen
     /\ ~NoKeywordOccurs(Catalog(catalog), text)) =>
        \E items \in {ScoreItems(Catalog(catalog), TextLower(text), 1)} :
        \E raw \in {[i \in 1..Len(items) |->
                        RawScore(Contribution, Catalog(catalog), items[i].cat, text)]} :
            /\ \A i \in 1..Len(items) : REq(items[i].score, raw[i])
            /\ \A dist \in Distributions(outcome.value) :
                   /\ Len(dist) = Len(items)
                   /\ \A i \in 1..Len(dist) :
                          /\ dist[i][1] = items[i].cat
                          /\ REq(RMul(dist[i][2], SumValues([j \in 1..Len(raw) |-> <<j, raw[j]>>])),
                                 raw[i])

\* C16, as the specification states it: a keyword found c times in a text of
\* N tokens adds (c / N) x (1 + length / 12 + 0.35 x (words - 1)) x
\* weight_boost to its category's raw score, which is the sum of these.
C16_ContributionByTwelfths == RawScoresFollow(ContributionByTwelfths)

\* C16, amended: a keyword found c times in a text of N tokens adds
\* (c / max(N, 1)) x (1 + length / 10) x weight_boost to its category's raw
\* score, whatever the number of words of the phrase, and a category's raw
\* score is the sum of what its found keywords add.
C16_ContributionByTenths == RawScoresFollow(ContributionByTenths)

\* A classified text in which keywords of different lengths and of three
\* categories are found.
C16_Witness ==
    /\ SingleTextReturned
    /\ StripLen(text) >= MinTextLen
    /\ Len(ScoreItems(Catalog(catalog), TextLower(text), 1)) = 3
    /\ \E dist \in Distributions(outcome.value) : Len(dist) = 3

max_retries == 5

\* The strategies of addfile_by_upload, in the order an attempt tries them:
\* multipart, JSON with base64, form with base64.
Strategies == <<"multipart", "json_b64", "form_b64">>

\* The operations that retry.
RetryingOps == {"checkcredit", "addfile_by_link", "addfile_by_upload", "convert_audio"}

\* What one request may meet: a requests.RequestException, a body that is not
\* JSON under some HTTP status, or a JSON object with some Status.
HttpCodes == {200, 404, 503}

Statuses == {"Done", "500", "UploadFailed"}

Responses ==
    {[kind |-> "network", status |-> "", code |-> 0]} \cup
    {[kind |-> "nonjson", status |-> "", code |-> c] : c \in HttpCodes} \cup
    {[kind |-> "json", status |-> st, code |-> 200] : st \in Statuses}

\* EbooClient._is_transient_http(status_code)
is_transient_http(status_code) == status_code \in {408, 429, 500, 502, 503, 504}

\* The statuses at which EbooClient._raise_if_known_error raises EbooAPIError.
error_like ==
    {"FileCorrupted", "NoEnoughCredit", "UploadFailed", "UnkwonURL", "UnknowMethod",
     "TokenNotFound", "MethodNotAllowed", "FileDeletedFromServer", "ConvertError",
     "Data Not Found Yet", "IPError", "404", "500"}

\* What the body of the retry loop does with a response: it returns it, it
\* raises EbooAPIError out of the call, or it goes on (to the next attempt, or
\* in addfile_by_upload to the next strategy), with or without a backoff sleep.
Step(act, sleep) == [act |-> act, sleep |-> sleep]

\* One pass of the loop of checkcredit: a JSON object goes straight to
\* _raise_if_known_error, Status "500" included.
checkcredit(resp) ==
    CASE resp.kind = "json" ->
             IF resp.status \in error_like THEN Step("raise", FALSE) ELSE Step("return", FALSE)
      [] resp.kind = "nonjson" ->
             IF is_transient_http(resp.code) THEN Step("continue", TRUE)
             ELSE Step("raise", FALSE)
      [] resp.kind = "network" -> Step("continue", TRUE)

\* One pass of the loop of addfile_by_link: Status "500" is slept on and
\* retried before _raise_if_known_error is asked.
addfile_by_link(resp) ==
    CASE resp.kind = "json" ->
             IF resp.status = "500" THEN Step("continue", TRUE)
             ELSE IF resp.status \in error_like THEN Step("raise", FALSE)
             ELSE Step("return", FALSE)
      [] resp.kind = "nonjson" ->
             IF is_transient_http(resp.code) THEN Step("continue", TRUE)
             ELSE Step("raise", FALSE)
      [] resp.kind = "network" -> Step("continue", TRUE)

\* One pass of the loop of convert_audio, which is that of addfile_by_link.
convert_audio(resp) ==
    CASE resp.kind = "json" ->
             IF resp.status = "500" THEN Step("continue", TRUE)
             ELSE IF resp.status \in error_like THEN Step("raise", FALSE)
             ELSE Step("return", FALSE)
      [] resp.kind = "nonjson" ->
             IF is_transient_http(resp.code) THEN Step("continue", TRUE)
             ELSE Step("raise", FALSE)
      [] resp.kind = "network" -> Step("continue", TRUE)

\* One strategy of one attempt of addfile_by_upload: after Status "500", a
\* body that is not JSON or a network error control falls to the next
\* strategy; any other error status raises out of the call.
addfile_by_upload(resp) ==
    CASE resp.kind = "json" ->
             IF resp.status = "500" THEN Step("continue", TRUE)
             ELSE IF resp.status \in error_like THEN Step("raise", FALSE)
             ELSE Step("return", FALSE)
      [] resp.kind = "nonjson" -> Step("continue", is_transient_http(resp.code))
      [] resp.kind = "network" -> Step("continue", TRUE)

\* The loop body of an operation.
LoopBody(op, resp) ==
    CASE op = "checkcredit" -> checkcredit(resp)
      [] op = "addfile_by_link" -> addfile_by_link(resp)
      [] op = "convert_audio" -> convert_audio(resp)
      [] op = "addfile_by_upload" -> addfile_by_upload(resp)

\* A faulty variant of the loop's progress: the attempt is tried again.
SameAttempt(e) == e

\* Where the loop goes on from: in addfile_by_upload the next strategy of the
\* attempt, otherwise (and after the last strategy) the next attempt.
NextPosition(e) ==
    IF e.op = "addfile_by_upload" /\ e.strategy < Len(Strategies)
    THEN [e EXCEPT !.strategy = @ + 1]
    ELSE [e EXCEPT !.attempt = @ + 1,
                   !.strategy = IF e.op = "addfile_by_upload" THEN 1 ELSE 0]

\* The call given up: the raise after the loop, or one out of its body.
GiveUp(e) == [e EXCEPT !.pc = "done", !.result = Raise("EbooAPIError")]

\* A call of operation op about to run.
EbooCall(op) ==
    [EbooIdle EXCEPT !.op = op, !.pc = "start"]

InitEboo ==
    /\ catalog = "builtin"
    /\ ML_AVAILABLE = FALSE
    /\ categorizer = NotBuilt
    /\ text = [pad |-> 0, words |-> << >>]
    /\ segments = NoSegments
    /\ calls = 0
    /\ ml_log = << >>
    /\ last_ml = NotInvoked
    /\ outcome = NoOutcome
    /\ worker = WorkerIdle
    /\ threads = NoThreads
    /\ eboo \in {EbooCall(op) : op \in RetryingOps}

EbooFrame ==
    UNCHANGED <<catalog, ML_AVAILABLE, categorizer, text, segments, calls, ml_log, last_ml,
                outcome, worker, threads>>

\* The statements before the loop: addfile_by_upload reads the file, and
\* raises EbooAPIError if it cannot.
EbooBegin(file_ok) ==
    /\ eboo.pc = "start"
    /\ eboo' = IF eboo.op = "addfile_by_upload" /\ ~file_ok THEN GiveUp(eboo)
               ELSE [eboo EXCEPT !.pc = "running", !.attempt = 1,
                                 !.strategy = IF eboo.op = "addfile_by_upload" THEN 1 ELSE 0]
    /\ EbooFrame

\* Whether a response is a transient failure: a network exception, a body
\* that is not JSON under a transient HTTP status, or JSON with Status "500".
Transient(resp) ==
    \/ resp.kind = "network"
    \/ resp.kind = "nonjson" /\ is_transient_http(resp.code)
    \/ resp.kind = "json" /\ resp.status = "500"

\* One request of the call and what the loop does with its response.
EbooRequest(resp) ==
    /\ eboo.pc = "running"
    /\ LET step == LoopBody(eboo.op, resp)
           seen == [eboo EXCEPT !.requests = @ + 1,
                                !.last = resp,
                                !.last_attempt = eboo.attempt,
                                !.last_strategy = eboo.strategy,
                                !.slept = step.sleep,
                                !.sleeps = IF step.sleep THEN @ + 1 ELSE @,
                                !.all_transient = @ /\ Transient(resp)]
           moved == NextPosition(seen)
       IN  eboo' = CASE step.act = "return" ->
                           [seen EXCEPT !.pc = "done", !.result = Return(resp)]
                     [] step.act = "raise" -> GiveUp(seen)
                     [] step.act = "continue" ->
                           IF moved.attempt > max_retries THEN GiveUp(moved) ELSE moved
    /\ EbooFrame

NextEboo ==
    \/ \E file_ok \in BOOLEAN : EbooBegin(file_ok)
    \/ \E resp \in Responses : EbooRequest(resp)

SpecEboo == InitEboo /\ [][NextEboo]_vars

(* ------------------------- Properties of EbooClient -------------------- *)

\* The request just answered failed transiently before the last attempt.
TransientBeforeLast ==
    /\ eboo.op \in RetryingOps
    /\ eboo.requests > 0
    /\ Transient(eboo.last)
    /\ eboo.last_attempt < max_retries

\* C18: in every retrying operation (checkcredit, addfile_by_link,
\* addfile_by_upload, convert_audio) a transient failure on an attempt before
\* the last, be it a network exception, a body that is not JSON under a
\* transient HTTP status or a JSON response with Status "500", is followed by
\* a backoff sleep and a further request, not by an error to the caller.
C18_TransientFailureRetried ==
    TransientBeforeLast => eboo.pc = "running" /\ eboo.slept /\ eboo.result.kind = "none"

\* The most requests a call may send: one per attempt, and in
\* addfile_by_upload one per strategy of each attempt.
RequestLimit(op) ==
    IF op = "addfile_by_upload" THEN Len(Strategies) * max_retries ELSE max_retries

\* C19: a call of checkcredit, addfile_by_link or convert_audio sends at most
\* max_retries requests and one of addfile_by_upload at most 3 x max_retries;
\* a call whose every request failed transiently has ended by raising
\* EbooAPIError once the requests are used up, so that none retries for ever;
\* and a call that returns, returns a JSON object.
C19_RetriesBounded ==
    /\ eboo.requests <= RequestLimit(eboo.op)
    /\ eboo.requests = RequestLimit(eboo.op) /\ eboo.all_transient =>
           eboo.pc = "done" /\ eboo.result = Raise("EbooAPIError")
    /\ eboo.pc = "done" =>
           \/ eboo.result = Raise("EbooAPIError")
           \/ eboo.result.kind = "return" /\ eboo.result.value.kind = "json"

\* A call of addfile_by_upload has used all its requests on transient
\* failures and has raised.
C19_Witness ==
    /\ eboo.op = "addfile_by_upload"
    /\ eboo.requests = Len(Strategies) * max_retries
    /\ eboo.all_transient
    /\ eboo.result = Raise("EbooAPIError")

\* The request just answered was a strategy of addfile_by_upload that failed:
\* a network error, a body that is not JSON, or a JSON error status.
StrategyFailed ==
    /\ eboo.op = "addfile_by_upload"
    /\ eboo.requests > 0
    /\ \/ eboo.last.kind \in {"network", "nonjson"}
       \/ eboo.last.kind = "json" /\ eboo.last.status \in error_like

\* C20: an attempt of addfile_by_upload tries multipart, then JSON with
\* base64, then form with base64; the first strategy answered by a successful
\* JSON response ends the call with that response and no further request; a
\* strategy that failed in any way, if not the last of its attempt, is
\* followed by the next strategy of the same attempt.
C20_StrategiesInOrder ==
    /\ eboo.op = "addfile_by_upload" /\ eboo.pc = "running" /\ eboo.requests = 0 =>
           Strategies[eboo.strategy] = "multipart"
    /\ eboo.op = "addfile_by_upload" /\ eboo.requests > 0
         /\ eboo.last.kind = "json" /\ eboo.last.status \notin error_like =>
           eboo.pc = "done" /\ eboo.result = Return(eboo.last)
    /\ StrategyFailed /\ eboo.last_strategy < Len(Strategies) =>
           /\ eboo.pc = "running"
           /\ eboo.attempt = eboo.last_attempt
           /\ eboo.strategy = eboo.last_strategy + 1

(* --------------------- Properties of the worker's Eboo use ------------- *)

\* C21: every segment the worker uploaded and got a FileToken for has had
\* deletefile called for that token by the time the run ends, on the success
\* path and on every failure path (conversion error, polling timeout, empty
\* output).
C21_UploadedFilesDeleted ==
    worker.pc = "done" => worker.uploaded \subseteq worker.deleted

\* C22: the worker never uploads a segment when the audio credit reported by
\* checkcredit is smaller than the duration of the audio in seconds; such a
\* run ends with the error signal before any addfile request.
C22_NoUploadWithoutCredit ==
    worker.pc \in {"upload", "convert", "wait", "delete"} \/ worker.uploaded # {} =>
        ~(worker.credit < worker.duration)

(* --------------------- EbooClient.wait_for_audio_text ------------------ *)

\* max_wait_sec, scaled down, and the longest a checkconvert request takes.
MaxWaitSec == 6

MaxRequestSec == 1

\* poll_interval_sec
PollIntervalSec == 3

\* The Output of a checkconvert payload: no such key, null, or a string that
\* is empty, blank or a transcript.
Outputs ==
    {[type |-> "missing", str |-> [pad |-> 0, words |-> << >>]],
     [type |-> "null", str |-> [pad |-> 0, words |-> << >>]]} \cup
    {[type |-> "str", str |-> [pad |-> p, words |-> w]] :
        p \in {0, 1}, w \in {<< >>, <<"breaking">>}}

\* What checkconvert may do: return the JSON object it got, raise
\* EbooAPIError on a body that is not JSON, or let the exception of the
\* request through.
CheckconvertResults ==
    {Raise("EbooAPIError"), Raise("RequestException")} \cup
    {Return([Status |-> st, Output |-> out]) :
        st \in {"Done", "Data Not Found Yet", "ConvertError"}, out \in Outputs}

\* A faulty variant of the test of Output: any string will do.
AnyString(data) == data.Output.type = "str"

\* isinstance(out, str) and out.strip()
HasOutput(data) == data.Output.type = "str" /\ ~IsBlank(data.Output.str)

\* A call of wait_for_audio_text about to poll; elapsed is time.time() - start
\* and checked its value at the last test against max_wait_sec.
WaitCall ==
    [op |-> "wait_for_audio_text", pc |-> "poll", polls |-> 0, elapsed |-> 0,
     checked |-> 0, last |-> Raise("none"), result |-> [kind |-> "none"]]

InitWait ==
    /\ catalog = "builtin"
    /\ ML_AVAILABLE = FALSE
    /\ categorizer = NotBuilt
    /\ text = [pad |-> 0, words |-> << >>]
    /\ segments = NoSegments
    /\ calls = 0
    /\ ml_log = << >>
    /\ last_ml = NotInvoked
    /\ outcome = NoOutcome
    /\ worker = WorkerIdle
    /\ threads = NoThreads
    /\ eboo = WaitCall

\* One pass of the loop: checkconvert, which takes request_sec seconds, the
\* test of Output, the test of the time elapsed, and the sleep.
WaitPoll(res, request_sec) ==
    /\ eboo.op = "wait_for_audio_text"
    /\ eboo.pc = "poll"
    /\ LET now == eboo.elapsed + request_sec
           polled == [eboo EXCEPT !.polls = @ + 1, !.elapsed = now, !.last = res]
       IN  eboo' =
             IF res.kind = "raise" THEN [polled EXCEPT !.pc = "done", !.result = res]
             ELSE IF HasOutput(res.value)
                  THEN [polled EXCEPT !.pc = "done", !.result = res]
             ELSE IF now > MaxWaitSec
                  THEN [polled EXCEPT !.pc = "done", !.checked = now,
                                      !.result = Raise("EbooAPIError")]
             ELSE [polled EXCEPT !.checked = now, !.elapsed = now + PollIntervalSec]
    /\ EbooFrame

NextWait == \E res \in CheckconvertResults, request_sec \in 0..MaxRequestSec :
                WaitPoll(res, request_sec)

SpecWait == InitWait /\ [][NextWait]_vars

\* The loop is not left waiting: the thread that called it runs on.
SpecWaitFair == SpecWait /\ WF_vars(NextWait)

\* The payload's Output is a string with something other than white space.
NonBlankOutput(data) == data.Output.type = "str" /\ data.Output.str.words # << >>

\* The last poll returned a payload without a transcript.
PolledWithoutOutput == eboo.last.kind = "return" /\ ~NonBlankOutput(eboo.last.value)

WaitInvariant ==
    /\ eboo.pc = "done" => eboo.polls >= 1
    /\ eboo.result.kind = "return" =>
           eboo.result = eboo.last /\ NonBlankOutput(eboo.result.value)
    /\ eboo.pc = "poll" /\ eboo.polls > 0 => PolledWithoutOutput
    /\ PolledWithoutOutput /\ eboo.checked <= MaxWaitSec =>
           eboo.pc = "poll" /\ eboo.result.kind = "none"
    /\ PolledWithoutOutput /\ eboo.checked > MaxWaitSec =>
           eboo.pc = "done" /\ eboo.result = Raise("EbooAPIError")

\* C23: wait_for_audio_text terminates as long as each checkconvert call
\* returns; it polls at least once, returns the first polled payload whose
\* Output is a string that is not blank, keeps polling through any other
\* Status, raises EbooAPIError once the time elapsed exceeds max_wait_sec, and
\* never returns a payload whose Output is missing or blank.
C23_WaitTerminates == [](WaitInvariant) /\ <>(eboo.pc = "done")

\* The call polled more than once through an error status and timed out.
C23_Witness ==
    /\ eboo.op = "wait_for_audio_text"
    /\ eboo.polls >= 2
    /\ eboo.last.kind = "return"
    /\ eboo.last.value.Status = "ConvertError"
    /\ eboo.checked > MaxWaitSec
    /\ eboo.result = Raise("EbooAPIError")

(* --------------------- Properties of the worker's signals -------------- *)

\* The terminal signals of a worker: success and failure.
SuccessSignal == IF worker.app = "app" THEN "finished" ELSE "result"

FailureSignal == IF worker.app = "app" THEN "failed" ELSE "error"

\* C24: every run of a pipeline worker emits exactly one terminal signal,
\* the success signal (result / finished) or the failure signal (error /
\* failed), never both and never neither, whatever step fails; none is
\* emitted before the run ends.
C24_OneTerminalSignal ==
    /\ worker.pc = "done" =>
           /\ Len(worker.signals) = 1
           /\ worker.signals[1] \in {SuccessSignal, FailureSignal}
    /\ worker.pc # "done" => worker.signals = << >>

\* A run of the enhanced worker failed after an upload and emitted error.
C24_Witness ==
    /\ worker.app = "app_production"
    /\ worker.pc = "done"
    /\ worker.uploaded # {}
    /\ worker.signals = <<"error">>

(* --------------------- Properties of the high-confidence path ---------- *)

\* C25: if the keyword classifier's confidence is at least 0.4,
\* HybridCategorizer.classify returns the keyword result tagged
\* "regex_high_confidence" and does not invoke the ML step; the ML step is
\* invoked only when that confidence is below 0.4 and ML is enabled and
\* available.
C25_HighConfidenceSkipsMl ==
    (calls > 0 /\ ~segments.given) =>
        LET regex_result == RegexClassify(Catalog(catalog), text)
        IN  /\ RLe(<<4, 10>>, regex_result.confidence) =>
                /\ last_ml = NotInvoked
                /\ outcome.kind = "return"
                /\ outcome.value.method = "regex_high_confidence"
                /\ outcome.value.label = regex_result.label
                /\ REq(outcome.value.confidence, regex_result.confidence)
            /\ last_ml # NotInvoked =>
                /\ RLt(regex_result.confidence, <<4, 10>>)
                /\ categorizer.ml_available
                /\ categorizer.ml_classifier = "pipeline"

\* A call on a classifier with ML loaded that answered from the keywords alone.
C25_Witness ==
    /\ calls > 0
    /\ ~segments.given
    /\ categorizer.ml_available
    /\ last_ml = NotInvoked
    /\ outcome.kind = "return"
    /\ outcome.value.method = "regex_high_confidence"

(* --------------------- Properties of the deletefile step --------------- *)

\* C26: a failure of deletefile, be it an error status, a body that is not
\* JSON or a network exception, never fails the run: whatever the request
\* met, the worker goes on to the next segment (or, after the last, to the
\* classification) with the transcripts and signals it had, as it does when
\* the deletion succeeds.
C26_DeleteFailureIgnored ==
    [][worker.pc = "delete" =>
          /\ worker'.pc = IF worker.idx = worker.n_segments THEN "classify" ELSE "upload"
          /\ worker'.idx = worker.idx + 1
          /\ worker'.parts = worker.parts
          /\ worker'.signals = worker.signals
          /\ worker'.deleted = worker.deleted \cup {worker.idx}
          /\ [worker' EXCEPT !.delete_log = << >>] =
                 [worker EXCEPT !.pc = worker'.pc, !.idx = worker'.idx,
                                !.deleted = worker'.deleted, !.delete_log = << >>]]_vars

\* A run of two segments whose first deletion met a network exception and
\* whose second an error status, and which ended with the result signal.
C26_Witness ==
    /\ worker.pc = "done"
    /\ Len(worker.delete_log) = 2
    /\ worker.delete_log[1] = Raise("RequestException")
    /\ worker.delete_log[2] = Return("FileDeletedFromServer")
    /\ Len(worker.parts) = 2
    /\ worker.signals = <<"result">>

====
